---- MODULE Spec2Model ----
(***************************************************************************)
(* Safe Browsing Guard: the managed-block patcher of the hosts file, its   *)
(* one-time backup and its restore (safe_browsing_guard.py).               *)
(*                                                                         *)
(* Text is a sequence of tokens.  "\n", " " and "\t" are the characters of *)
(* that name; every other token is an atom: a run of characters that holds *)
(* no line break and neither begins nor ends with white space.  A file is  *)
(* its content as Python's text mode presents it; a line is a sequence of  *)
(* tokens, its terminator included.  A domain is a host name: a non-empty  *)
(* run of letters, one token per letter, no white space.                   *)
(***************************************************************************)
EXTENDS Integers, Sequences, FiniteSets, TLC

VARIABLES
    hosts,           \* content of the hosts file (it always exists)
    backup,          \* the backup file: [exists, content]
    pc,              \* position of the running call ("idle" between calls)
    op,              \* the call in progress or, between calls, the last one made
    domains,         \* apply_changes: parameter domains
    original_lines,  \* apply_changes: local original_lines
    unmanaged,       \* apply_changes: local unmanaged
    managed,         \* apply_changes / render_block: the rendered block
    out,             \* what the last step printed ("none": nothing)
    dns,             \* what flush_dns printed in the last step ("none": not called)
    edits,           \* number of lines the external editor has inserted
    foreign,         \* history: editor lines inserted outside the block, file order
    preFirst,        \* history: hosts content when the first apply_changes began
    initClean,       \* history: the initial file held no sentinel line
    faults,          \* number of failed writes so far
    raced,           \* history: lines the editor wrote between the read and the
                     \* write of the running apply_changes
    menu_domains,    \* menu_loop: local domains
    config,          \* the config file: [exists, valid, content]
    menu_last,       \* history: the last menu action that added or removed a domain
    crop             \* cropper: the image size and settings compute_box is called
                     \* with, and what the call gave

menuVars == <<menu_domains, config, menu_last>>

vars == <<hosts, backup, pc, op, domains, original_lines, unmanaged, managed,
          out, dns, edits, foreign, preFirst, initClean, faults, raced,
          menu_domains, config, menu_last, crop>>

----------------------------------------------------------------------------
(* Bounds *)

MaxInitLines == 3
MaxEdits == 1
MaxRenderLen == 4
MaxFaults == 1
MaxStripLen == 4
MaxMenuLen == 4
MaxImg == 3
MaxOffset == 1

----------------------------------------------------------------------------
(* Program constants *)

SAFESEARCH_IP == <<"216.239.38.120">>

SAFESEARCH_DOMAINS ==
    << <<"google.com">>, <<"www.google.com">>, <<"www.google.co.uk">>,
       <<"www.google.ca">>, <<"youtube.com">>, <<"www.youtube.com">> >>

BEGIN_MARKER == <<"# >>> SafeBrowsingGuard begin">>

END_MARKER == <<"# <<< SafeBrowsingGuard end">>

BLOCK_IP == <<"127.0.0.1">>

SafeSearchComment == <<"# SafeSearch mappings ->", " ">> \o SAFESEARCH_IP

CustomComment == <<"# Custom blocked domains ->", " ">> \o BLOCK_IP

NoBackupMsg == "No backup found."

RestoredMsg == "Backup restored. DNS cache refreshed where supported."

AppliedMsg == "Changes applied. Managed block written between markers."

FlushedMsg == "DNS cache flushed (Windows)."

UnableMsg == "Unable to flush DNS automatically"

ReminderMsg == "Reminder: flush DNS manually if needed"

----------------------------------------------------------------------------
(* Text primitives *)

\* str.isspace for the characters of the model
IsSpace(c) == c \in {" ", "\t", "\n"}

RECURSIVE LStrip(_)
LStrip(s) == IF s # <<>> /\ IsSpace(Head(s)) THEN LStrip(Tail(s)) ELSE s

RECURSIVE RStrip(_)
RStrip(s) ==
    IF s # <<>> /\ IsSpace(s[Len(s)]) THEN RStrip(SubSeq(s, 1, Len(s) - 1)) ELSE s

\* str.strip()
Strip(s) == RStrip(LStrip(s))

\* str.endswith("\n")
EndsWithNewline(s) == s # <<>> /\ s[Len(s)] = "\n"

\* code point order of the characters domains are made of
CodePoint(c) ==
    CASE c = "." -> 46 [] c = "A" -> 65 [] c = "B" -> 66
      [] c = "a" -> 97 [] c = "b" -> 98 [] c = "c" -> 99 [] c = "d" -> 100
      [] c = "e" -> 101 [] c = "i" -> 105 [] c = "l" -> 108 [] c = "m" -> 109
      [] c = "o" -> 111 [] c = "p" -> 112 [] c = "s" -> 115 [] c = "t" -> 116
      [] c = "x" -> 120 [] OTHER -> 0

\* str.__lt__: lexicographic by code point, a proper prefix is smaller
RECURSIVE StrLess(_, _)
StrLess(s, t) ==
    IF t = <<>> THEN FALSE
    ELSE IF s = <<>> THEN TRUE
    ELSE IF Head(s) = Head(t) THEN StrLess(Tail(s), Tail(t))
    ELSE CodePoint(Head(s)) < CodePoint(Head(t))

\* file.readlines(): split after every "\n", terminators kept
RECURSIVE ReadLinesFrom(_, _)
ReadLinesFrom(content, cur) ==
    IF content = <<>> THEN (IF cur = <<>> THEN <<>> ELSE <<cur>>)
    ELSE IF Head(content) = "\n"
         THEN <<Append(cur, "\n")>> \o ReadLinesFrom(Tail(content), <<>>)
         ELSE ReadLinesFrom(Tail(content), Append(cur, Head(content)))

readlines(content) == ReadLinesFrom(content, <<>>)

\* the text file.writelines(lines) appends
RECURSIVE writelines(_)
writelines(lines) ==
    IF lines = <<>> THEN <<>> ELSE Head(lines) \o writelines(Tail(lines))

----------------------------------------------------------------------------
(* safe_browsing_guard.py *)

NoFile == [exists |-> FALSE, content |-> <<>>]

\* shutil.copy2(src, dst): dst exists afterwards and holds src's content
copy2(srcContent) == [exists |-> TRUE, content |-> srcContent]

\* mutant: the existence test is dropped, every call copies
ensure_backup_always(h, b) == copy2(h)

\* mutant: the existence test is inverted
ensure_backup_inverted(h, b) == IF b.exists THEN copy2(h) ELSE b

ensure_backup(h, b) == IF ~b.exists THEN copy2(h) ELSE b

RECURSIVE StripLoop(_, _, _)
StripLoop(lines, skipping, cleaned) ==
    IF lines = <<>> THEN cleaned
    ELSE LET line == Head(lines) IN
         IF Strip(line) = BEGIN_MARKER THEN StripLoop(Tail(lines), TRUE, cleaned)
         ELSE IF Strip(line) = END_MARKER THEN StripLoop(Tail(lines), FALSE, cleaned)
         ELSE IF ~skipping THEN StripLoop(Tail(lines), skipping, Append(cleaned, line))
         ELSE StripLoop(Tail(lines), skipping, cleaned)

\* mutant: the continue of line 70 is missing, the end sentinel is kept
RECURSIVE StripLoopKeepEnd(_, _, _)
StripLoopKeepEnd(lines, skipping, cleaned) ==
    IF lines = <<>> THEN cleaned
    ELSE LET line == Head(lines) IN
         IF Strip(line) = BEGIN_MARKER THEN StripLoopKeepEnd(Tail(lines), TRUE, cleaned)
         ELSE IF Strip(line) = END_MARKER
              THEN StripLoopKeepEnd(Tail(lines), FALSE, Append(cleaned, line))
         ELSE IF ~skipping THEN StripLoopKeepEnd(Tail(lines), skipping, Append(cleaned, line))
         ELSE StripLoopKeepEnd(Tail(lines), skipping, cleaned)

strip_keep_end(lines) == StripLoopKeepEnd(lines, FALSE, <<>>)

\* mutant: the lines are compared without strip(), so none equals a marker
strip_no_trim(lines) == lines

\* mutant: a block that is never closed is given up on, the lines are kept
strip_keep_unterminated(lines) ==
    IF \E i \in DOMAIN lines :
           Strip(lines[i]) = BEGIN_MARKER
               /\ \A j \in (i + 1)..Len(lines) : Strip(lines[j]) # END_MARKER
    THEN lines
    ELSE StripLoop(lines, FALSE, <<>>)

\* mutant: a line is kept as its stripped text
RECURSIVE StripLoopTrimmed(_, _, _)
StripLoopTrimmed(lines, skipping, cleaned) ==
    IF lines = <<>> THEN cleaned
    ELSE LET line == Head(lines) IN
         IF Strip(line) = BEGIN_MARKER THEN StripLoopTrimmed(Tail(lines), TRUE, cleaned)
         ELSE IF Strip(line) = END_MARKER THEN StripLoopTrimmed(Tail(lines), FALSE, cleaned)
         ELSE IF ~skipping
              THEN StripLoopTrimmed(Tail(lines), skipping, Append(cleaned, Strip(line) \o <<"\n">>))
         ELSE StripLoopTrimmed(Tail(lines), skipping, cleaned)

strip_trimmed(lines) == StripLoopTrimmed(lines, FALSE, <<>>)

\* mutant: line 69 is missing, an end sentinel does not end the skipping
RECURSIVE StripLoopNoResume(_, _, _)
StripLoopNoResume(lines, skipping, cleaned) ==
    IF lines = <<>> THEN cleaned
    ELSE LET line == Head(lines) IN
         IF Strip(line) = BEGIN_MARKER THEN StripLoopNoResume(Tail(lines), TRUE, cleaned)
         ELSE IF Strip(line) = END_MARKER THEN StripLoopNoResume(Tail(lines), skipping, cleaned)
         ELSE IF ~skipping THEN StripLoopNoResume(Tail(lines), skipping, Append(cleaned, line))
         ELSE StripLoopNoResume(Tail(lines), skipping, cleaned)

strip_no_resume(lines) == StripLoopNoResume(lines, FALSE, <<>>)

\* mutant: line 66 is missing, only the sentinel lines are dropped
strip_no_skip(lines) ==
    SelectSeq(lines, LAMBDA l : Strip(l) # BEGIN_MARKER /\ Strip(l) # END_MARKER)

strip_managed_block(lines) == StripLoop(lines, FALSE, <<>>)

\* set(domains)
SetOf(seq) == {seq[i] : i \in DOMAIN seq}

\* sorted(S) of a set of strings
RECURSIVE sorted(_)
sorted(S) ==
    IF S = {} THEN <<>>
    ELSE LET m == CHOOSE x \in S : \A y \in S \ {x} : StrLess(x, y)
         IN <<m>> \o sorted(S \ {m})

\* mutant: the loop runs over domains itself, not over sorted(set(domains))
render_block_unsorted(doms) ==
    LET fixed == [i \in DOMAIN SAFESEARCH_DOMAINS |->
                      SAFESEARCH_IP \o <<"\t">> \o SAFESEARCH_DOMAINS[i]]
        custom == IF doms # <<>>
                  THEN <<CustomComment>> \o
                       [i \in DOMAIN doms |-> BLOCK_IP \o <<"\t">> \o doms[i]]
                  ELSE <<>>
        block == <<BEGIN_MARKER, SafeSearchComment>> \o fixed \o custom \o <<END_MARKER>>
    IN [i \in DOMAIN block |-> block[i] \o <<"\n">>]

\* mutant: the test of line 81 is missing, the custom section is always written
render_block_always_custom(doms) ==
    LET fixed == [i \in DOMAIN SAFESEARCH_DOMAINS |->
                      SAFESEARCH_IP \o <<"\t">> \o SAFESEARCH_DOMAINS[i]]
        srt == sorted(SetOf(doms))
        custom == <<CustomComment>> \o [i \in DOMAIN srt |-> BLOCK_IP \o <<"\t">> \o srt[i]]
        block == <<BEGIN_MARKER, SafeSearchComment>> \o fixed \o custom \o <<END_MARKER>>
    IN [i \in DOMAIN block |-> block[i] \o <<"\n">>]

render_block(doms) ==
    LET fixed == [i \in DOMAIN SAFESEARCH_DOMAINS |->
                      SAFESEARCH_IP \o <<"\t">> \o SAFESEARCH_DOMAINS[i]]
        srt == sorted(SetOf(doms))
        custom == IF doms # <<>>
                  THEN <<CustomComment>> \o
                       [i \in DOMAIN srt |-> BLOCK_IP \o <<"\t">> \o srt[i]]
                  ELSE <<>>
        block == <<BEGIN_MARKER, SafeSearchComment>> \o fixed \o custom \o <<END_MARKER>>
    IN [i \in DOMAIN block |-> block[i] \o <<"\n">>]

\* mutant: the return of line 115 is missing, the copy is attempted
restore_backup_no_return(h, b) ==
    [hosts |-> copy2(b.content).content, backup |-> b, copied |-> TRUE]

\* mutant: the arguments of copy2 are swapped
restore_backup_swapped(h, b) ==
    IF ~b.exists
    THEN [hosts |-> h, backup |-> b, copied |-> FALSE]
    ELSE [hosts |-> h, backup |-> copy2(h), copied |-> TRUE]

\* restore_backup: what it leaves in the two files, and whether it copied
restore_backup(h, b) ==
    IF ~b.exists
    THEN [hosts |-> h, backup |-> b, copied |-> FALSE]
    ELSE [hosts |-> copy2(b.content).content, backup |-> b, copied |-> TRUE]

\* mutant: the try of lines 124-128 is missing, a failed command raises
flush_dns_no_try(system, commandOk) ==
    IF system = "windows"
    THEN IF commandOk THEN [printed |-> FlushedMsg, raised |-> FALSE]
                      ELSE [printed |-> "none", raised |-> TRUE]
    ELSE [printed |-> ReminderMsg, raised |-> FALSE]

\* flush_dns(): what it prints and whether an exception leaves it; commandOk
\* is whether subprocess.run(..., check=True) returns
flush_dns(system, commandOk) ==
    IF system = "windows"
    THEN IF commandOk THEN [printed |-> FlushedMsg, raised |-> FALSE]
                      ELSE [printed |-> UnableMsg, raised |-> FALSE]
    ELSE [printed |-> ReminderMsg, raised |-> FALSE]

----------------------------------------------------------------------------
(* What a line is, for the history variables and the properties *)

IsBegin(line) == Strip(line) = BEGIN_MARKER

IsEnd(line) == Strip(line) = END_MARKER

IsSentinel(line) == IsBegin(line) \/ IsEnd(line)

\* a line without its terminator
LineText(line) ==
    IF EndsWithNewline(line) THEN SubSeq(line, 1, Len(line) - 1) ELSE line

Texts(lines) == [i \in DOMAIN lines |-> LineText(lines[i])]

\* position p (after the first p lines) lies after a begin sentinel that no
\* end sentinel has closed yet
InsideBlock(lines, p) ==
    \E i \in 1..p : IsBegin(lines[i]) /\ \A j \in (i + 1)..p : ~IsEnd(lines[j])

\* the unmanaged lines of a file, as the specification defines them: the lines
\* that are no sentinel and do not lie inside a block
IsUnmanaged(lines, i) == ~IsSentinel(lines[i]) /\ ~InsideBlock(lines, i - 1)

RECURSIVE UnmanagedUpTo(_, _)
UnmanagedUpTo(lines, n) ==
    IF n = 0 THEN <<>>
    ELSE IF IsUnmanaged(lines, n)
         THEN Append(UnmanagedUpTo(lines, n - 1), LineText(lines[n]))
         ELSE UnmanagedUpTo(lines, n - 1)

Unmanaged(lines) == UnmanagedUpTo(lines, Len(lines))

----------------------------------------------------------------------------
(* Initial hosts files and the inputs of the calls *)

HostLine == <<"1.2.3.4 other.example">>

InitLineTexts ==
    { HostLine,
      <<"\t">> \o BEGIN_MARKER,
      <<" ">> \o END_MARKER \o <<"\t">> }

\* every line terminated, except perhaps the last
FileOf(texts, lastNl) ==
    writelines([i \in DOMAIN texts |->
                    IF i < Len(texts) \/ lastNl THEN texts[i] \o <<"\n">> ELSE texts[i]])

InitFiles ==
    { FileOf(t, nl) : t \in UNION {[1..n -> InitLineTexts] : n \in 0..MaxInitLines},
                      nl \in BOOLEAN }

Domains == { <<"a">>, <<"a", "b">>, <<"b">> }

DomainLists(n) == UNION {[1..k -> Domains] : k \in 0..n}

\* the domain lists apply_changes is called with
ApplyInputs == { <<>>, << <<"b">>, <<"a", "b">>, <<"b">>, <<"a">> >> }

EditToks == <<"e1", "e2", "e3", "e4">>

\* the k-th line the external editor inserts: it quotes the begin marker, and
\* is no sentinel
EditLine(k) == <<" ">> \o BEGIN_MARKER \o <<" ", EditToks[k], "\t">>

----------------------------------------------------------------------------
(* The config file and the menu's domain list *)

DEFAULT_DOMAINS ==
    << <<"e", "x", "a", "m", "p", "l", "e", ".", "c", "o", "m">>,
       <<"b", "a", "d", "s", "i", "t", "e", ".", "c", "o", "m">> >>

NoConfig == [exists |-> FALSE, valid |-> FALSE, content |-> <<>>]

\* str.lower(), on the characters typed
LowerChar(c) == CASE c = "A" -> "a" [] c = "B" -> "b" [] OTHER -> c

lower(s) == [i \in DOMAIN s |-> LowerChar(s[i])]

\* prompt_domain(prompt): the line typed, stripped and lowered
prompt_domain(typed) == lower(Strip(typed))

\* load_config(config_dir): the list in the file, the defaults when the file
\* is missing or does not hold a list
load_config(c) == IF c.exists /\ c.valid THEN c.content ELSE DEFAULT_DOMAINS

\* mutant: line 53 dumps domains itself
save_config_as_is(doms) == [exists |-> TRUE, valid |-> TRUE, content |-> doms]

\* save_config(config_dir, domains): the file afterwards
save_config(doms) == [exists |-> TRUE, valid |-> TRUE, content |-> sorted(SetOf(doms))]

NoAction == [kind |-> "none", domain |-> <<>>, present |-> FALSE]

\* no menu is running
MenuIdle ==
    /\ menu_domains = <<>>
    /\ config = NoConfig
    /\ menu_last = NoAction

----------------------------------------------------------------------------
(* The cropper *)

NoCrop == [img_w |-> 0, img_h |-> 0, settings |-> <<>>, result |-> <<>>]

min(a, b) == IF a <= b THEN a ELSE b

max(a, b) == IF a >= b THEN a ELSE b

clamp(value, min_value, max_value) == max(min_value, min(value, max_value))

\* the (gx, gy) of each gravity, in halves: 0.5 is 1, 1.0 is 2
GRAVITY_OFFSETS ==
    [g \in {"center", "top-left", "top-right", "bottom-left", "bottom-right"} |->
        CASE g = "center" -> <<1, 1>>
          [] g = "top-left" -> <<0, 0>>
          [] g = "top-right" -> <<2, 0>>
          [] g = "bottom-left" -> <<0, 2>>
          [] g = "bottom-right" -> <<2, 2>>]

\* int(x) of a number of halves: truncation towards zero
int(halves) == IF halves >= 0 THEN halves \div 2 ELSE -((-halves) \div 2)

\* str.lower() of a gravity name
GravityLower(g) == IF g = "CENTER" THEN "center" ELSE g

ValueError == [raised |-> TRUE, box |-> <<>>]

\* mutant: lines 105-106 are missing, the position is not clamped
compute_box_no_clamp(img_w, img_h, settings) ==
    IF settings.box # <<>> THEN [raised |-> FALSE, box |-> settings.box]
    ELSE
    LET square == settings.auto_square /\ (settings.width = <<>> \/ settings.height = <<>>)
    IN
    IF ~square /\ (settings.width = <<>> \/ settings.height = <<>>) THEN ValueError
    ELSE
    LET crop_w == IF square THEN min(img_w, img_h) ELSE clamp(settings.width[1], 1, img_w)
        crop_h == IF square THEN min(img_w, img_h) ELSE clamp(settings.height[1], 1, img_h)
        gravity == GravityLower(settings.gravity)
    IN
    IF gravity \notin DOMAIN GRAVITY_OFFSETS THEN ValueError
    ELSE
    LET gx == GRAVITY_OFFSETS[gravity][1]
        gy == GRAVITY_OFFSETS[gravity][2]
        x0 == int(gx * (img_w - crop_w)) + settings.offset_x
        y0 == int(gy * (img_h - crop_h)) + settings.offset_y
    IN [raised |-> FALSE, box |-> <<x0, y0, x0 + crop_w, y0 + crop_h>>]

\* compute_box(image, settings), image.size being (img_w, img_h)
compute_box(img_w, img_h, settings) ==
    IF settings.box # <<>> THEN [raised |-> FALSE, box |-> settings.box]
    ELSE
    LET square == settings.auto_square /\ (settings.width = <<>> \/ settings.height = <<>>)
    IN
    IF ~square /\ (settings.width = <<>> \/ settings.height = <<>>) THEN ValueError
    ELSE
    LET crop_w == IF square THEN min(img_w, img_h) ELSE clamp(settings.width[1], 1, img_w)
        crop_h == IF square THEN min(img_w, img_h) ELSE clamp(settings.height[1], 1, img_h)
        gravity == GravityLower(settings.gravity)
    IN
    IF gravity \notin DOMAIN GRAVITY_OFFSETS THEN ValueError
    ELSE
    LET gx == GRAVITY_OFFSETS[gravity][1]
        gy == GRAVITY_OFFSETS[gravity][2]
        xa == int(gx * (img_w - crop_w)) + settings.offset_x
        ya == int(gy * (img_h - crop_h)) + settings.offset_y
        x0 == clamp(xa, 0, img_w - crop_w)
        y0 == clamp(ya, 0, img_h - crop_h)
        x1 == x0 + crop_w
        y1 == y0 + crop_h
    IN [raised |-> FALSE, box |-> <<x0, y0, x1, y1>>]

----------------------------------------------------------------------------
(* The patcher *)

Init ==
    /\ hosts \in InitFiles
    /\ backup = NoFile
    /\ pc = "idle"
    /\ op = "none"
    /\ domains = <<>>
    /\ original_lines = <<>>
    /\ unmanaged = <<>>
    /\ managed = <<>>
    /\ out = "none"
    /\ dns = "none"
    /\ edits = 0
    /\ foreign = Unmanaged(readlines(hosts))
    /\ preFirst = [set |-> FALSE, content |-> <<>>]
    /\ initClean = (\A i \in DOMAIN readlines(hosts) : ~IsSentinel(readlines(hosts)[i]))
    /\ faults = 0
    /\ raced = {}
    /\ MenuIdle
    /\ crop = NoCrop

\* mutant: line 101 is missing, only the block is written
written_block_only(unm, man) == writelines(man)

\* mutant: lines 102-103 are missing, no newline is added
written_no_newline(unm, man) == writelines(unm) \o writelines(man)

\* what lines 101-104 write into the file opened at line 100
written(unm, man) ==
    writelines(unm)
        \o (IF unm # <<>> /\ ~EndsWithNewline(unm[Len(unm)]) THEN <<"\n">> ELSE <<>>)
        \o writelines(man)

\* apply_changes(config_dir, domains), lines 90-98: ensure_backup, then
\* read, strip and render
ApplyPrepare(D) ==
    /\ pc = "idle"
    /\ op' = "apply"
    /\ domains' = D
    /\ backup' = ensure_backup(hosts, backup)
    /\ preFirst' = IF preFirst.set THEN preFirst ELSE [set |-> TRUE, content |-> hosts]
    /\ original_lines' = readlines(hosts)
    /\ unmanaged' = strip_managed_block(original_lines')
    /\ managed' = render_block(D)
    /\ pc' = "open"
    /\ out' = "none"
    /\ dns' = "none"
    /\ UNCHANGED <<menuVars, crop, hosts, edits, foreign, initClean, faults, raced>>

\* line 100: open(hosts, "w") truncates the file
ApplyOpenW ==
    /\ pc = "open"
    /\ hosts' = <<>>
    /\ pc' = "write"
    /\ UNCHANGED <<menuVars, crop, backup, op, domains, original_lines, unmanaged, managed, out, dns, edits,
                   foreign, preFirst, initClean, faults, raced>>

\* lines 101-104: the three writes, and the file is closed
ApplyWrite ==
    /\ pc = "write"
    /\ hosts' = hosts \o written(unmanaged, managed)
    /\ pc' = "flush"
    /\ UNCHANGED <<menuVars, crop, backup, op, domains, original_lines, unmanaged, managed, out, dns, edits,
                   foreign, preFirst, initClean, faults, raced>>

\* restore_backup(config_dir), lines 111-116
RestoreBackup ==
    /\ pc = "idle"
    /\ LET r == restore_backup(hosts, backup)
       IN /\ hosts' = r.hosts
          /\ backup' = r.backup
          /\ pc' = IF r.copied THEN "flush" ELSE "idle"
          /\ out' = IF r.copied THEN "none" ELSE NoBackupMsg
          /\ dns' = "none"
          /\ foreign' = IF r.copied THEN Unmanaged(readlines(r.hosts)) ELSE foreign
    /\ op' = "restore"
    /\ UNCHANGED <<menuVars, crop, domains, original_lines, unmanaged, managed, edits, preFirst, initClean,
                   faults, raced>>

\* flush_dns() and the closing print of apply_changes (106-107) and of
\* restore_backup (117-118); the call returns, or an exception of flush_dns
\* leaves it
FlushDns ==
    /\ pc = "flush"
    /\ \E system \in {"windows", "other"}, commandOk \in BOOLEAN :
          LET r == flush_dns(system, commandOk)
          IN /\ dns' = r.printed
             /\ out' = IF r.raised THEN "Exception"
                       ELSE IF op = "apply" THEN AppliedMsg ELSE RestoredMsg
    /\ pc' = "idle"
    /\ domains' = <<>>
    /\ original_lines' = <<>>
    /\ unmanaged' = <<>>
    /\ managed' = <<>>
    /\ raced' = {}
    /\ UNCHANGED <<menuVars, crop, hosts, backup, op, edits, foreign, preFirst, initClean, faults>>

\* where the external editor inserts: at the top of the file, directly above a
\* managed block, or at the end of the file
EditPositions(lines) ==
    {0, Len(lines)}
        \cup {i - 1 : i \in {j \in DOMAIN lines : IsBegin(lines[j]) /\ ~InsideBlock(lines, j - 1)}}

\* Another program inserts one terminated, non-sentinel line at a line
\* boundary of the hosts file, between two calls.  The line is an unmanaged
\* line unless it lands after an unterminated begin sentinel.
ExternalInsert ==
    /\ pc = "idle"
    /\ edits < MaxEdits
    /\ \E p \in EditPositions(readlines(hosts)) :
          LET lines == readlines(hosts)
              T == Texts(lines)
              newT == SubSeq(T, 1, p) \o <<EditLine(edits + 1)>> \o SubSeq(T, p + 1, Len(T))
              before == Len(UnmanagedUpTo(lines, p))
          IN /\ hosts' = FileOf(newT, p = Len(T) \/ EndsWithNewline(hosts))
             /\ foreign' = IF ~InsideBlock(lines, p)
                           THEN SubSeq(foreign, 1, before) \o <<EditLine(edits + 1)>>
                                    \o SubSeq(foreign, before + 1, Len(foreign))
                           ELSE foreign
    /\ edits' = edits + 1
    /\ op' = "edit"
    /\ out' = "none"
    /\ dns' = "none"
    /\ UNCHANGED <<menuVars, crop, backup, pc, domains, original_lines, unmanaged, managed, preFirst,
                   initClean, faults, raced>>

\* The write phase of apply_changes fails (an OSError out of line 101, 103 or
\* 104): the exception leaves the with block, which closes the file with what
\* the statements before the failing one wrote.
ApplyWriteFail(stage) ==
    /\ pc = "write"
    /\ faults < MaxFaults
    /\ hosts' = CASE stage = 0 -> hosts
                  [] stage = 1 -> hosts \o writelines(unmanaged)
                  [] stage = 2 -> hosts \o written(unmanaged, <<>>)
    /\ pc' = "failed"
    /\ faults' = faults + 1
    /\ UNCHANGED <<menuVars, crop, backup, op, domains, original_lines, unmanaged, managed, out, dns, edits,
                   foreign, preFirst, initClean, raced>>

\* the exception propagates out of apply_changes: nothing is printed
Unwind ==
    /\ pc = "failed"
    /\ pc' = "idle"
    /\ out' = "OSError"
    /\ dns' = "none"
    /\ domains' = <<>>
    /\ original_lines' = <<>>
    /\ unmanaged' = <<>>
    /\ managed' = <<>>
    /\ foreign' = Unmanaged(readlines(hosts))
    /\ UNCHANGED <<menuVars, crop, hosts, backup, op, edits, preFirst, initClean, faults, raced>>

\* Another program appends one terminated line to the hosts file after the
\* running apply_changes has read the file and before it opens it for writing.
RaceInsert ==
    /\ pc = "open"
    /\ edits < MaxEdits
    /\ hosts' = FileOf(Append(Texts(readlines(hosts)), EditLine(edits + 1)), TRUE)
    /\ raced' = raced \cup {EditLine(edits + 1)}
    /\ edits' = edits + 1
    /\ UNCHANGED <<menuVars, crop, backup, pc, op, domains, original_lines, unmanaged, managed, out, dns,
                   foreign, preFirst, initClean, faults>>

\* render_block(domains) on its own
RenderInit ==
    /\ hosts = <<>>
    /\ backup = NoFile
    /\ pc = "render"
    /\ op = "none"
    /\ domains \in DomainLists(MaxRenderLen)
    /\ original_lines = <<>>
    /\ unmanaged = <<>>
    /\ managed = <<>>
    /\ out = "none"
    /\ dns = "none"
    /\ edits = 0
    /\ foreign = <<>>
    /\ preFirst = [set |-> FALSE, content |-> <<>>]
    /\ initClean = TRUE
    /\ faults = 0
    /\ raced = {}
    /\ MenuIdle
    /\ crop = NoCrop

Render ==
    /\ pc = "render"
    /\ managed' = render_block(domains)
    /\ pc' = "rendered"
    /\ UNCHANGED <<menuVars, crop, hosts, backup, op, domains, original_lines, unmanaged, out, dns, edits,
                   foreign, preFirst, initClean, faults, raced>>

Next ==
    \/ \E D \in ApplyInputs : ApplyPrepare(D)
    \/ ApplyOpenW
    \/ ApplyWrite
    \/ RestoreBackup
    \/ FlushDns
    \/ ExternalInsert

Spec == Init /\ [][Next]_vars

\* the same program on a system whose writes can fail
NextFault ==
    \/ Next
    \/ \E stage \in 0..2 : ApplyWriteFail(stage)
    \/ Unwind

SpecFault == Init /\ [][NextFault]_vars

\* the same program with an editor that is not synchronised with it
NextRace ==
    \/ Next
    \/ RaceInsert

SpecRace == Init /\ [][NextRace]_vars

\* strip_managed_block(lines) on its own
StripLineTexts ==
    { HostLine,
      <<"\t">> \o BEGIN_MARKER,
      END_MARKER \o <<" ">>,
      BEGIN_MARKER \o <<" ", "x">> }

StripInputs ==
    { [i \in DOMAIN t |-> IF i < Len(t) \/ nl THEN t[i] \o <<"\n">> ELSE t[i]] :
          t \in UNION {[1..n -> StripLineTexts] : n \in 0..MaxStripLen}, nl \in BOOLEAN }

StripInit ==
    /\ hosts = <<>>
    /\ backup = NoFile
    /\ pc = "strip"
    /\ op = "none"
    /\ domains = <<>>
    /\ original_lines \in StripInputs
    /\ unmanaged = <<>>
    /\ managed = <<>>
    /\ out = "none"
    /\ dns = "none"
    /\ edits = 0
    /\ foreign = <<>>
    /\ preFirst = [set |-> FALSE, content |-> <<>>]
    /\ initClean = TRUE
    /\ faults = 0
    /\ raced = {}
    /\ MenuIdle
    /\ crop = NoCrop

StripStep ==
    /\ pc = "strip"
    /\ unmanaged' = strip_managed_block(original_lines)
    /\ pc' = "stripped"
    /\ UNCHANGED <<menuVars, crop, hosts, backup, op, domains, original_lines, managed, out, dns, edits,
                   foreign, preFirst, initClean, faults, raced>>

SpecStrip == StripInit /\ [][StripStep]_vars

SpecRender == RenderInit /\ [][Render]_vars

----------------------------------------------------------------------------
(* menu_loop(config_dir) *)

\* the config files menu_loop may find: none, one that holds no list, and
\* lists as save_config or a hand leaves them
ConfigFiles ==
    { NoConfig, [exists |-> TRUE, valid |-> FALSE, content |-> <<>>] }
        \cup { [exists |-> TRUE, valid |-> TRUE, content |-> l] :
                  l \in { <<>>, << <<"b">>, <<"a">>, <<"b">> >>, << <<"A">> >> } }

\* the lines typed at the prompt of prompt_domain
Typed == { <<>>, <<" ", "A">>, <<"B", "\t">>, <<"a", "b">> }

\* line 139: the list is loaded
MenuInit ==
    /\ hosts = FileOf(<<HostLine>>, TRUE)
    /\ backup = NoFile
    /\ pc = "idle"
    /\ op = "none"
    /\ domains = <<>>
    /\ original_lines = <<>>
    /\ unmanaged = <<>>
    /\ managed = <<>>
    /\ out = "none"
    /\ dns = "none"
    /\ edits = 0
    /\ foreign = Unmanaged(readlines(hosts))
    /\ preFirst = [set |-> FALSE, content |-> <<>>]
    /\ initClean = TRUE
    /\ faults = 0
    /\ raced = {}
    /\ config \in ConfigFiles
    /\ menu_domains = load_config(config)
    /\ menu_last = NoAction
    /\ crop = NoCrop

\* choice "1", lines 155-162
MenuAdd ==
    /\ pc = "idle"
    /\ \E typed \in Typed :
          LET domain == prompt_domain(typed) IN
          IF domain # <<>>
          THEN /\ Len(menu_domains) < MaxMenuLen
               /\ menu_domains' = Append(menu_domains, domain)
               /\ config' = save_config(menu_domains')
               /\ menu_last' = [kind |-> "add", domain |-> domain,
                                present |-> domain \in SetOf(menu_domains)]
               /\ out' = "Added"
          ELSE /\ out' = "No domain entered."
               /\ UNCHANGED menuVars
    /\ op' = "add"
    /\ dns' = "none"
    /\ UNCHANGED <<hosts, backup, pc, domains, original_lines, unmanaged, managed, edits,
                   foreign, preFirst, initClean, faults, raced, crop>>

\* choice "2", lines 163-170
MenuRemove ==
    /\ pc = "idle"
    /\ \E typed \in Typed :
          LET domain == prompt_domain(typed) IN
          IF domain \in SetOf(menu_domains)
          THEN /\ menu_domains' = SelectSeq(menu_domains, LAMBDA d : d # domain)
               /\ config' = save_config(menu_domains')
               /\ menu_last' = [kind |-> "remove", domain |-> domain, present |-> TRUE]
               /\ out' = "Removed"
          ELSE /\ out' = "Domain not found."
               /\ UNCHANGED menuVars
    /\ op' = "remove"
    /\ dns' = "none"
    /\ UNCHANGED <<hosts, backup, pc, domains, original_lines, unmanaged, managed, edits,
                   foreign, preFirst, initClean, faults, raced, crop>>

\* choices "1", "2", "4" and "5", and the steps of the calls they make
NextMenu ==
    \/ MenuAdd
    \/ MenuRemove
    \/ ApplyPrepare(menu_domains)
    \/ ApplyOpenW
    \/ ApplyWrite
    \/ RestoreBackup
    \/ FlushDns

SpecMenu == MenuInit /\ [][NextMenu]_vars

----------------------------------------------------------------------------
(* compute_box(image, settings) *)

Gravities == DOMAIN GRAVITY_OFFSETS \cup {"CENTER", "middle"}

\* width and height: None is <<>>, a number n is <<n>>
Sizes == {<<>>} \cup {<<n>> : n \in 0..(MaxImg + 1)}

CropSettings ==
    [box : {<<>>}, width : Sizes, height : Sizes, gravity : Gravities,
     offset_x : (-MaxOffset)..MaxOffset, offset_y : (-MaxOffset)..MaxOffset,
     auto_square : BOOLEAN]
        \cup [box : {<<1, 0, 2, 1>>}, width : {<<>>, <<1>>}, height : {<<>>}, gravity : {"center"},
              offset_x : {0}, offset_y : {0}, auto_square : BOOLEAN]

CropInit ==
    /\ hosts = <<>>
    /\ backup = NoFile
    /\ pc = "crop"
    /\ op = "none"
    /\ domains = <<>>
    /\ original_lines = <<>>
    /\ unmanaged = <<>>
    /\ managed = <<>>
    /\ out = "none"
    /\ dns = "none"
    /\ edits = 0
    /\ foreign = <<>>
    /\ preFirst = [set |-> FALSE, content |-> <<>>]
    /\ initClean = TRUE
    /\ faults = 0
    /\ raced = {}
    /\ MenuIdle
    /\ crop \in [img_w : 1..MaxImg, img_h : 1..MaxImg, settings : CropSettings,
                 result : {<<>>}]

CropStep ==
    /\ pc = "crop"
    /\ crop' = [crop EXCEPT !.result = compute_box(crop.img_w, crop.img_h, crop.settings)]
    /\ pc' = "cropped"
    /\ UNCHANGED <<hosts, backup, op, domains, original_lines, unmanaged, managed, out, dns,
                   edits, foreign, preFirst, initClean, faults, raced, menuVars>>

SpecCrop == CropInit /\ [][CropStep]_vars

----------------------------------------------------------------------------
(* Properties *)

\* apply_changes has written the file and not returned yet
Applied == pc = "flush" /\ op = "apply"

\* lines 94-104 as a function of the file content and the domain list
ApplyOutput(content, doms) ==
    written(strip_managed_block(readlines(content)), render_block(doms))

BeginIndices(lines) == {i \in DOMAIN lines : IsBegin(lines[i])}

EndIndices(lines) == {i \in DOMAIN lines : IsEnd(lines[i])}

\* a begin sentinel that no later end sentinel closes
Unterminated(lines) ==
    \E i \in DOMAIN lines : IsBegin(lines[i]) /\ \A j \in (i + 1)..Len(lines) : ~IsEnd(lines[j])

\* C1: apply_changes(D) run on the file that apply_changes(D) has just
\* written leaves it as it is.  The call that has just written the file wrote
\* ApplyOutput of what it read, and ApplyOutput of the file it wrote is that
\* file again.
C1_ApplyIdempotent ==
    Applied =>
        /\ hosts = ApplyOutput(writelines(original_lines), domains)
        /\ ApplyOutput(hosts, domains) = hosts

\* a second apply_changes with the same domains has run on the output of the
\* first, stripped its block and left the file as it found it
C1_Witness ==
    /\ Applied
    /\ domains # <<>>
    /\ unmanaged # <<>>
    /\ original_lines = unmanaged \o managed
    /\ hosts = writelines(original_lines)

\* C2: whenever the file is whole (not between the truncation and the write
\* of a running apply_changes), its unmanaged lines are exactly the lines that
\* were unmanaged at the start and the lines the editor inserted outside the
\* block since, each with its text unchanged, in their order.
C2_ForeignLinesSurvive ==
    pc # "write" => Unmanaged(readlines(hosts)) = foreign

\* apply_changes has rewritten a file in which the editor's line stood below
\* the old block and an original line above it
C2_Witness ==
    /\ Applied
    /\ Len(foreign) >= 2
    /\ foreign[Len(foreign)] = EditLine(1)
    /\ \E i \in DOMAIN original_lines :
          /\ IsEnd(original_lines[i])
          /\ i < Len(original_lines)
          /\ LineText(original_lines[Len(original_lines)]) = EditLine(1)

\* C3: after apply_changes has written the file it holds one begin sentinel
\* and one end sentinel, the begin first, and between them the lines rendered
\* from the domains.
C3_SingleManagedBlock ==
    Applied =>
        LET lines == readlines(hosts)
            B == BeginIndices(lines)
            E == EndIndices(lines)
        IN /\ Cardinality(B) = 1
           /\ Cardinality(E) = 1
           /\ \A b \in B, e \in E :
                 /\ b < e
                 /\ SubSeq(lines, b, e) = render_block(domains)

\* the file apply_changes read held a block, a begin sentinel inside a block
\* and one more begin sentinel
C3_Witness ==
    /\ Applied
    /\ Cardinality(BeginIndices(original_lines)) >= 2
    /\ Cardinality(EndIndices(original_lines)) >= 1
    /\ unmanaged # <<>>

\* C4: the content of an existing backup never changes.
C4_BackupWriteOnce == [][backup.exists => backup' = backup]_vars

\* ensure_backup has run again on a hosts file that differs from the backup
C4_Witness ==
    /\ pc = "open"
    /\ backup.exists
    /\ backup.content # hosts
    /\ preFirst.content # hosts

\* C5: a backup exists before apply_changes opens the hosts file for writing;
\* it holds the hosts content of the moment the first apply_changes was
\* called, and no sentinel line if the initial file held none.
C5_BackupIsPreManagement ==
    /\ (op = "apply" /\ pc \in {"open", "write", "flush"}) => backup.exists
    /\ backup.exists => (preFirst.set /\ backup.content = preFirst.content)
    /\ (backup.exists /\ initClean) =>
           \A i \in DOMAIN readlines(backup.content) : ~IsSentinel(readlines(backup.content)[i])

\* a restore and a later apply_changes have run, the file has a block and
\* the backup of an initially clean file has none
C5_Witness ==
    /\ Applied
    /\ initClean
    /\ backup.exists
    /\ backup.content # <<>>
    /\ original_lines # readlines(backup.content)
    /\ hosts # backup.content

\* C6: after a failed write phase every unmanaged line the file held before
\* the call is still in the file.
C6_NoLossOnWriteFailure ==
    pc = "failed" =>
        \A i \in DOMAIN unmanaged :
            \E j \in DOMAIN readlines(hosts) :
                LineText(readlines(hosts)[j]) = LineText(unmanaged[i])

\* C7: apply_changes on a file with an unterminated begin sentinel writes a
\* file that ends with the block rendered from the domains and holds no
\* sentinel line before it.
C7_MalformedPriorBlock ==
    (Applied /\ Unterminated(original_lines)) =>
        LET block == writelines(render_block(domains))
            cut == Len(hosts) - Len(block)
        IN /\ cut >= 0
           /\ SubSeq(hosts, cut + 1, Len(hosts)) = block
           /\ \A i \in DOMAIN readlines(SubSeq(hosts, 1, cut)) :
                 ~IsSentinel(readlines(SubSeq(hosts, 1, cut))[i])
           /\ (cut > 0 => hosts[cut] = "\n")

\* the file read began with an unmanaged line, then a begin sentinel that is
\* never closed
C7_Witness ==
    /\ Applied
    /\ Unterminated(original_lines)
    /\ unmanaged # <<>>
    /\ Len(original_lines) > Len(unmanaged) + 1

\* C8: restore_backup called with no backup leaves the hosts file as it is,
\* creates no backup and returns at once, having printed "No backup found.".
C8_RestoreWithoutBackup ==
    [][(pc = "idle" /\ ~backup.exists /\ op' = "restore")
          => (hosts' = hosts /\ backup' = backup /\ pc' = "idle" /\ out' = NoBackupMsg)]_vars

\* restore_backup has returned from a call with no backup, on a file that is
\* not empty
C8_Witness ==
    /\ pc = "idle"
    /\ op = "restore"
    /\ out = NoBackupMsg
    /\ ~backup.exists
    /\ hosts # <<>>

\* C9: restore_backup called with a backup leaves the backup as it is and the
\* hosts file with the content of the backup.
C9_RestoreOverwrites ==
    [][(pc = "idle" /\ backup.exists /\ op' = "restore")
          => (hosts' = backup.content /\ backup' = backup)]_vars

\* restore_backup has overwritten a file that held a managed block and a
\* line of the editor: neither is left
C9_Witness ==
    /\ pc = "flush"
    /\ op = "restore"
    /\ edits > 0
    /\ hosts = backup.content
    /\ \A i \in DOMAIN readlines(hosts) :
          ~IsSentinel(readlines(hosts)[i]) /\ LineText(readlines(hosts)[i]) # EditLine(1)
    /\ hosts # <<>>

\* the domain lines of a rendered block, without address, tab and terminator
CustomDomains(block) ==
    LET isDom(l) == Len(l) >= 2 /\ SubSeq(l, 1, 2) = BLOCK_IP \o <<"\t">>
        doms == SelectSeq(block, isDom)
    IN [i \in DOMAIN doms |-> SubSeq(doms[i], 3, Len(doms[i]) - 1)]

\* C10: the rendered block has one domain line for each distinct domain of
\* the list, in strictly increasing order, and every list with the same set
\* of domains renders to the same block.
C10_SortedDedupRendering ==
    pc = "rendered" =>
        LET cd == CustomDomains(managed) IN
        /\ Len(cd) = Cardinality(SetOf(domains))
        /\ SetOf(cd) = SetOf(domains)
        /\ \A i, j \in DOMAIN cd : i < j => StrLess(cd[i], cd[j])
        /\ \A i \in DOMAIN managed : EndsWithNewline(managed[i])
        /\ \A other \in DomainLists(MaxRenderLen) :
              SetOf(other) = SetOf(domains) => render_block(other) = managed

\* a list out of order, with a repetition and with a domain that is a prefix
\* of another has been rendered
C10_Witness ==
    /\ pc = "rendered"
    /\ Len(domains) >= 4
    /\ domains[1] = <<"b">>
    /\ domains[2] = <<"a", "b">>
    /\ domains[3] = <<"b">>
    /\ domains[4] = <<"a">>

\* the lines every rendered block starts with, written out
FixedLines ==
    << <<"# >>> SafeBrowsingGuard begin", "\n">>,
       <<"# SafeSearch mappings ->", " ", "216.239.38.120", "\n">>,
       <<"216.239.38.120", "\t", "google.com", "\n">>,
       <<"216.239.38.120", "\t", "www.google.com", "\n">>,
       <<"216.239.38.120", "\t", "www.google.co.uk", "\n">>,
       <<"216.239.38.120", "\t", "www.google.ca", "\n">>,
       <<"216.239.38.120", "\t", "youtube.com", "\n">>,
       <<"216.239.38.120", "\t", "www.youtube.com", "\n">> >>

EndLine == <<"# <<< SafeBrowsingGuard end", "\n">>

CustomCommentLine == <<"# Custom blocked domains ->", " ", "127.0.0.1", "\n">>

\* C11: the block rendered from no domain is the begin sentinel, the
\* SafeSearch comment, the six fixed mappings in their order and the end
\* sentinel, and nothing else; the block rendered from some domains starts
\* with the same lines, followed by the custom comment.
C11_EmptySetRendering ==
    pc = "rendered" =>
        /\ domains = <<>> => managed = FixedLines \o <<EndLine>>
        /\ domains # <<>> =>
              /\ Len(managed) > Len(FixedLines) + 2
              /\ SubSeq(managed, 1, Len(FixedLines)) = FixedLines
              /\ managed[Len(FixedLines) + 1] = CustomCommentLine
              /\ managed[Len(managed)] = EndLine

\* the empty list has been rendered
C11_Witness ==
    /\ pc = "rendered"
    /\ domains = <<>>
    /\ Len(managed) = 9

\* C12: after apply_changes has written the file, its lines are the
\* unmanaged lines of the file it read, in their order and with their text,
\* then the lines of the rendered block, every line terminated; one character,
\* a newline, was added exactly if there are unmanaged lines and the last of
\* them had no terminator.
C12_OutputLayout ==
    Applied =>
        LET lines == readlines(hosts)
            n == Len(unmanaged)
            added == IF n > 0 /\ ~EndsWithNewline(unmanaged[n]) THEN 1 ELSE 0
        IN /\ Texts(unmanaged) = Unmanaged(original_lines)
           /\ Len(lines) = n + Len(managed)
           /\ Texts(SubSeq(lines, 1, n)) = Texts(unmanaged)
           /\ SubSeq(lines, n + 1, Len(lines)) = managed
           /\ managed = render_block(domains)
           /\ \A i \in DOMAIN lines : EndsWithNewline(lines[i])
           /\ Len(hosts) = Len(writelines(unmanaged)) + added + Len(writelines(managed))

\* the last unmanaged line of the file read had no terminator
C12_Witness ==
    /\ Applied
    /\ unmanaged # <<>>
    /\ ~EndsWithNewline(unmanaged[Len(unmanaged)])
    /\ Len(unmanaged) >= 2

\* the lines the external editor writes
EditLines == {EditLine(k) : k \in 1..MaxEdits}

HasLine(lines, text) == \E j \in DOMAIN lines : LineText(lines[j]) = text

\* C13 as stated: every line the editor wrote before the read of an
\* apply_changes is in the file that apply_changes writes; only a line written
\* between the read and the write is lost.
C13_OnlyRaceLoses ==
    Applied =>
        /\ \A i \in DOMAIN original_lines :
              LineText(original_lines[i]) \in EditLines
                  => HasLine(readlines(hosts), LineText(original_lines[i]))
        /\ \A t \in raced : ~HasLine(readlines(hosts), t)

\* C13, amended: every line the editor wrote outside a block before the read
\* of an apply_changes is in the file that apply_changes writes, and every
\* line it wrote between the read and the write is not.
C13_RaceLosesEdit ==
    Applied =>
        /\ \A i \in DOMAIN original_lines :
              (LineText(original_lines[i]) \in EditLines /\ IsUnmanaged(original_lines, i))
                  => HasLine(readlines(hosts), LineText(original_lines[i]))
        /\ \A t \in raced : ~HasLine(readlines(hosts), t)

\* the editor wrote a line between the read and the write of apply_changes,
\* and the file apply_changes wrote does not hold it
C13_Witness ==
    /\ Applied
    /\ raced # {}
    /\ \A t \in raced : ~HasLine(readlines(hosts), t)
    /\ unmanaged # <<>>

\* C14: flush_dns is called only where the hosts file has been written in
\* full (by apply_changes) or copied from the backup (by restore_backup); the
\* step that calls it leaves both files as they are and ends with the closing
\* print of the call, whether the flush command succeeds or not.
C14_FlushNeverFailsPatch ==
    [][/\ (dns' # "none") =>
              /\ pc = "flush"
              /\ op = "apply" => hosts = written(unmanaged, managed)
              /\ op = "restore" => hosts = backup.content
       /\ (pc = "flush" /\ pc' # "flush") =>
              /\ dns' \in {FlushedMsg, UnableMsg, ReminderMsg}
              /\ hosts' = hosts
              /\ backup' = backup
              /\ pc' = "idle"
              /\ out' = (IF op = "apply" THEN AppliedMsg ELSE RestoredMsg)]_vars

\* apply_changes has returned after a flush command that failed
C14_Witness ==
    /\ pc = "idle"
    /\ op = "apply"
    /\ dns = UnableMsg
    /\ out = AppliedMsg
    /\ backup.exists
    /\ hosts # backup.content

\* C15: when apply_changes has stripped a file whose begin sentinel is never
\* closed, it returns with an outcome other than that of a normal call.
C15_UnterminatedObservable ==
    [][(Applied /\ Unterminated(original_lines) /\ pc' = "idle") => out' # AppliedMsg]_vars

\* the lines i of an input that lie in no range from a begin sentinel
\* through the next end sentinel after it
OutsideClosedRanges(lines) ==
    {i \in DOMAIN lines :
        ~\E b \in 1..i, e \in i..Len(lines) :
            /\ b < e
            /\ IsBegin(lines[b])
            /\ IsEnd(lines[e])
            /\ \A j \in (b + 1)..(e - 1) : ~IsEnd(lines[j])}

\* the lines i of an input that are no sentinel and do not lie after a begin
\* sentinel that no end sentinel has closed
KeptIndices(lines) == {i \in DOMAIN lines : IsUnmanaged(lines, i)}

\* out is the lines of in at the indices of keep, in their order
IsSelection(outLines, inLines, keep) ==
    /\ Len(outLines) = Cardinality(keep)
    /\ \A i \in keep : outLines[Cardinality({j \in keep : j <= i})] = inLines[i]

\* C16 as stated: strip_managed_block drops exactly the lines from a begin
\* sentinel through the next end sentinel and keeps the others.
C16_DropsClosedRangesOnly ==
    pc = "stripped" =>
        IsSelection(unmanaged, original_lines, OutsideClosedRanges(original_lines))

\* C16, amended: strip_managed_block returns the lines of its input that are
\* no sentinel and do not lie after a begin sentinel that no end sentinel has
\* closed, in their order and unchanged; the result holds no sentinel, and
\* stripping it again changes nothing.
C16_StripScan ==
    pc = "stripped" =>
        /\ IsSelection(unmanaged, original_lines, KeptIndices(original_lines))
        /\ \A i \in DOMAIN unmanaged : ~IsSentinel(unmanaged[i])
        /\ strip_managed_block(unmanaged) = unmanaged

\* an input with a closed block, a line quoting the marker and an unclosed
\* begin sentinel has been stripped
C16_Witness ==
    /\ pc = "stripped"
    /\ Len(original_lines) = 4
    /\ IsBegin(original_lines[1])
    /\ IsEnd(original_lines[2])
    /\ IsBegin(original_lines[4])
    /\ unmanaged = <<BEGIN_MARKER \o <<" ", "x", "\n">> >>

\* the first begin sentinel that no later end sentinel closes
FirstUnterminated(lines) ==
    CHOOSE b \in DOMAIN lines :
        /\ IsBegin(lines[b]) /\ \A j \in (b + 1)..Len(lines) : ~IsEnd(lines[j])
        /\ \A c \in 1..(b - 1) :
              ~(IsBegin(lines[c]) /\ \A j \in (c + 1)..Len(lines) : ~IsEnd(lines[j]))

\* C17: when the file read holds a begin sentinel that is never closed, the
\* file apply_changes writes holds the unmanaged lines that stood before that
\* sentinel and the new block, and nothing else: no line of the editor that
\* stood after the sentinel is left, and such a line is in the backup only if
\* it was in the file when the first apply_changes was called.
C17_UnterminatedSwallowsRest ==
    (Applied /\ Unterminated(original_lines)) =>
        LET b == FirstUnterminated(original_lines) IN
        /\ Texts(unmanaged) = Unmanaged(SubSeq(original_lines, 1, b - 1))
        /\ Len(readlines(hosts)) = Len(unmanaged) + Len(managed)
        /\ \A i \in b..Len(original_lines) :
              LineText(original_lines[i]) \in EditLines =>
                  /\ ~HasLine(readlines(hosts), LineText(original_lines[i]))
                  /\ HasLine(readlines(backup.content), LineText(original_lines[i]))
                         <=> HasLine(readlines(preFirst.content), LineText(original_lines[i]))

\* the editor had appended a line after a begin sentinel that is never
\* closed; apply_changes has removed it and the backup does not hold it
C17_Witness ==
    /\ Applied
    /\ Unterminated(original_lines)
    /\ LineText(original_lines[Len(original_lines)]) = EditLine(1)
    /\ ~HasLine(readlines(hosts), EditLine(1))
    /\ ~HasLine(readlines(backup.content), EditLine(1))
    /\ unmanaged # <<>>

\* the config file holds a list in strictly increasing order
ConfigSorted ==
    /\ config.exists
    /\ config.valid
    /\ \A i, j \in DOMAIN config.content : i < j => StrLess(config.content[i], config.content[j])

\* the number of lines of a file that block the domain d
BlockLines(content, d) ==
    Cardinality({i \in DOMAIN readlines(content) :
                    LineText(readlines(content)[i]) = BLOCK_IP \o <<"\t">> \o d})

AutoSquareCall ==
    /\ pc = "cropped"
    /\ crop.settings.box = <<>>
    /\ crop.settings.auto_square
    /\ crop.settings.width = <<>> \/ crop.settings.height = <<>>
    /\ GravityLower(crop.settings.gravity) \in DOMAIN GRAVITY_OFFSETS

\* C19: with auto_square and no width or no height, compute_box returns the
\* square of side min(img_w, img_h) centred in the image, whatever the
\* gravity and the offsets.
C19_AutoSquareCentered ==
    AutoSquareCall =>
        LET side == IF crop.img_w <= crop.img_h THEN crop.img_w ELSE crop.img_h
            cx == (crop.img_w - side) \div 2
            cy == (crop.img_h - side) \div 2
        IN /\ ~crop.result.raised
           /\ crop.result.box = <<cx, cy, cx + side, cy + side>>

\* compute_box was called without a box, with a width, a height and a
\* gravity it knows
SizedCall ==
    /\ pc = "cropped"
    /\ crop.settings.box = <<>>
    /\ crop.settings.width # <<>>
    /\ crop.settings.height # <<>>
    /\ GravityLower(crop.settings.gravity) \in DOMAIN GRAVITY_OFFSETS

\* the value nearest to v in lo..hi
Nearest(v, lo, hi) == IF v < lo THEN lo ELSE IF v > hi THEN hi ELSE v

\* C20: called without a box and with a width and a height, compute_box
\* returns a box that lies in the image, is not empty, and has the requested
\* width and height brought into 1..img_w and 1..img_h.
C20_CropInsideImage ==
    SizedCall =>
        /\ ~crop.result.raised
        /\ LET x0 == crop.result.box[1]
               y0 == crop.result.box[2]
               x1 == crop.result.box[3]
               y1 == crop.result.box[4]
           IN /\ 0 <= x0 /\ x0 < x1 /\ x1 <= crop.img_w
              /\ 0 <= y0 /\ y0 < y1 /\ y1 <= crop.img_h
              /\ x1 - x0 = Nearest(crop.settings.width[1], 1, crop.img_w)
              /\ y1 - y0 = Nearest(crop.settings.height[1], 1, crop.img_h)

\* a 1x1 crop was asked at the bottom right of a 3x2 image with offsets that
\* point out of it; the box is the bottom right pixel
C20_Witness ==
    /\ SizedCall
    /\ crop.img_w = 3
    /\ crop.img_h = 2
    /\ crop.settings.gravity = "bottom-right"
    /\ crop.settings.offset_x = 1
    /\ crop.settings.offset_y = 1
    /\ crop.settings.width = <<0>>
    /\ crop.settings.height = <<1>>
    /\ crop.result.box = <<2, 1, 3, 2>>

====
